---- MODULE Spec2Model ----
(***************************************************************************)
(* Model of guble's cluster coordination layer (server/cluster/cluster.go):*)
(* the Cluster struct, its lifecycle (Start/Stop/Check), the broadcast     *)
(* fan-out, the memberlist delegate callbacks and the inbound dispatch.    *)
(* The membership provider (hashicorp/memberlist) is the environment: the  *)
(* results of its calls are inputs chosen from small sets.                 *)
(***************************************************************************)
EXTENDS Integers, Sequences, FiniteSets, TLC

(***************************************************************************)
(* Bounds of the model.                                                    *)
(***************************************************************************)
MaxContacted == 1
MaxHealthScore == 2
MaxThreshold == 1
MaxEvents == 2
MaxCalls == 1
MaxRawLen == 4
MaxHandled == 2
NumContexts == 2
MaxCallbacks == 3

\* Config.ID of the two coordinators that are modelled in full.
Nodes == {1, 2}

\* IDs of all the nodes a membership list can name (3 is a further peer).
PeerIDs == {1, 2, 3}

\* c.name: fmt.Sprintf("%d", config.ID)
name(id) == ToString(id)

MemberNames == {name(i) : i \in PeerIDs}

(***************************************************************************)
(* Error values returned by the operations.                                *)
(***************************************************************************)
NoError == "nil"
ErrNoHandler == "There should be a valid MessageHandler already set-up"
ErrJoin == "memberlist.Join error"
ErrNoRemotes == "No remote hosts were successfuly contacted"
ErrHealth == "Cluster Health Score is not perfect"
ErrShutdown == "memberlist.Shutdown error"
ErrEncode == "encode error"

(***************************************************************************)
(* The cluster message (the envelope) and its codec, and the protocol      *)
(* message with its serialisation.                                         *)
(***************************************************************************)
stringMessage == 0
gubleMessage == 1

\* First byte of a well-formed protocol message (the '/' that opens its path).
PathMarker == 47

message(nodeID, type, body) == [NodeID |-> nodeID, Type |-> type, Body |-> body]

\* cMessage.encode(): sender id, kind, body length, body.
encode(cmsg) == <<cmsg.NodeID, cmsg.Type, Len(cmsg.Body)>> \o cmsg.Body

\* decode(bytes): an error for empty, truncated or structurally invalid bytes.
decode(bytes) ==
    IF Len(bytes) < 3
        THEN [ok |-> FALSE]
        ELSE IF bytes[3] # Len(bytes) - 3
            THEN [ok |-> FALSE]
            ELSE [ok |-> TRUE,
                  cmsg |-> message(bytes[1], bytes[2], SubSeq(bytes, 4, Len(bytes)))]

\* pMessage.Bytes()
Bytes(pMessage) == <<PathMarker>> \o pMessage.content

\* protocol.ParseMessage(body)
ParseMessage(body) ==
    IF Len(body) = 0
        THEN [ok |-> FALSE]
        ELSE IF body[1] # PathMarker
            THEN [ok |-> FALSE]
            ELSE [ok |-> TRUE, msg |-> [content |-> Tail(body)]]

\* Inputs of the operations.
RawByte == {stringMessage, gubleMessage, PathMarker}
RawMsgs == UNION {[1..k -> RawByte] : k \in 0..MaxRawLen}
Strings == {<<PathMarker>>}
EmptyMessage == [content |-> <<>>]
AppMessages == {EmptyMessage, [content |-> <<gubleMessage>>]}

\* The bytes of an application message as a peer sends them.
AppSample == encode(message(1, gubleMessage, Bytes(EmptyMessage)))

\* Inbound bytes of every sort: an application message, a string message, an
\* application message whose body does not parse, and bytes that do not decode.
InboundSamples ==
    {AppSample,
     encode(message(1, stringMessage, <<PathMarker>>)),
     encode(message(1, gubleMessage, <<>>)),
     <<>>}

VARIABLES
    Config,          \* [Nodes -> [ID, HealthScoreThreshold]], immutable
    MessageHandler,  \* [Nodes -> BOOLEAN]: TRUE iff the field is non-nil
    lifecycle,       \* [Nodes -> {"Created", "Started", "Stopped"}]
    numJoins,        \* [Nodes -> Nat]
    numLeaves,       \* [Nodes -> Nat]
    numUpdates,      \* [Nodes -> Nat]
    members,         \* [Nodes -> SUBSET MemberNames]: memberlist.Members() of each node
    calls,           \* the Broadcast* calls made so far, in order
    tasks,           \* the sendToNode goroutines launched so far
    wire,            \* messages the provider accepted and has not handed over yet
    handled,         \* [Nodes -> Seq]: the calls of MessageHandler.HandleMessage
    last,            \* the most recent call into a Cluster: its inputs and result
    aborted,         \* [Nodes -> BOOLEAN]: the node's process has panicked
    callbacks,       \* event callbacks running concurrently, and how many returned
    subs             \* [Nodes -> SUBSET SubscriptionKeys]: Connector.subs of each node

vars == <<Config, MessageHandler, lifecycle, numJoins, numLeaves, numUpdates,
          members, calls, tasks, wire, handled, last, aborted, callbacks, subs>>

counters == <<numJoins, numLeaves, numUpdates>>

fanout == <<members, calls, tasks, wire>>

\* The goroutines of the provider that can run an event callback, and the
\* three events (NotifyJoin, NotifyLeave, NotifyUpdate).
Contexts == 1..NumContexts
Events == {"join", "leave", "update"}

\* A context that runs no callback.
Idle == [pc |-> "idle", node |-> 0, event |-> "none", reg |-> 0]

Configs ==
    {c \in [Nodes -> [ID : Nodes, HealthScoreThreshold : 0..MaxThreshold]] :
        \A n \in Nodes : c[n].ID = n}

DefaultConfig == [n \in Nodes |-> [ID |-> n, HealthScoreThreshold |-> 0]]

\* New(config) for every node: no handler, provider created, counters zero.
Created(configs) ==
    /\ Config \in configs
    /\ MessageHandler = [n \in Nodes |-> FALSE]
    /\ lifecycle = [n \in Nodes |-> "Created"]
    /\ numJoins = [n \in Nodes |-> 0]
    /\ numLeaves = [n \in Nodes |-> 0]
    /\ numUpdates = [n \in Nodes |-> 0]
    /\ members = [n \in Nodes |-> {name(n)}]
    /\ calls = <<>>
    /\ tasks = {}
    /\ wire = {}
    /\ handled = [n \in Nodes |-> <<>>]
    /\ last = [op |-> "New"]
    /\ aborted = [n \in Nodes |-> FALSE]
    /\ callbacks = [running |-> [c \in Contexts |-> Idle],
                    returned |-> [n \in Nodes |-> [e \in Events |-> 0]]]
    /\ subs = [n \in Nodes |-> {}]

Init == Created(Configs)

(***************************************************************************)
(* The embedding application assigns the MessageHandler field after New(). *)
(***************************************************************************)
SetMessageHandler(n) ==
    /\ ~aborted[n]
    /\ MessageHandler' = [MessageHandler EXCEPT ![n] = TRUE]
    /\ last' = [op |-> "SetMessageHandler", node |-> n]
    /\ UNCHANGED <<Config, aborted, callbacks, subs, lifecycle, counters, fanout, handled>>

(***************************************************************************)
(* Cluster.Start. num and joinFailed are what memberlist.Join returns when *)
(* it is called.  joins counts the calls of memberlist.Join in this Start. *)
(***************************************************************************)
\* Mutant: joins the cluster before looking at the MessageHandler.
StartOutcome_JoinFirst(handlerSet, num, joinFailed) ==
    IF joinFailed
        THEN [err |-> ErrJoin, joins |-> 1]
        ELSE IF num = 0
            THEN [err |-> ErrNoRemotes, joins |-> 1]
            ELSE IF ~handlerSet
                THEN [err |-> ErrNoHandler, joins |-> 1]
                ELSE [err |-> NoError, joins |-> 1]

\* Mutant: a join that contacted nobody counts as a success.
StartOutcome_NoZeroCheck(handlerSet, num, joinFailed) ==
    IF ~handlerSet
        THEN [err |-> ErrNoHandler, joins |-> 0]
        ELSE IF joinFailed
            THEN [err |-> ErrJoin, joins |-> 1]
            ELSE [err |-> NoError, joins |-> 1]

\* Mutant: a join that returned an error is tried a second time.
StartOutcome_RetryJoin(handlerSet, num, joinFailed) ==
    IF ~handlerSet
        THEN [err |-> ErrNoHandler, joins |-> 0]
        ELSE IF joinFailed
            THEN [err |-> ErrJoin, joins |-> 2]
            ELSE IF num = 0
                THEN [err |-> ErrNoRemotes, joins |-> 1]
                ELSE [err |-> NoError, joins |-> 1]

StartOutcome(handlerSet, num, joinFailed) ==
    IF ~handlerSet
        THEN [err |-> ErrNoHandler, joins |-> 0]
        ELSE IF joinFailed
            THEN [err |-> ErrJoin, joins |-> 1]
            ELSE IF num = 0
                THEN [err |-> ErrNoRemotes, joins |-> 1]
                ELSE [err |-> NoError, joins |-> 1]

Start(n, num, joinFailed) ==
    LET r == StartOutcome(MessageHandler[n], num, joinFailed) IN
    /\ ~aborted[n]
    /\ lifecycle' = [lifecycle EXCEPT ![n] =
                        IF r.err = NoError THEN "Started" ELSE @]
    /\ last' = [op |-> "Start", node |-> n, handler |-> MessageHandler[n],
                num |-> IF r.joins = 0 THEN 0 ELSE num,
                joinFailed |-> IF r.joins = 0 THEN FALSE ELSE joinFailed,
                joins |-> r.joins, err |-> r.err]
    /\ UNCHANGED <<Config, aborted, callbacks, subs, MessageHandler, counters, fanout, handled>>

(***************************************************************************)
(* Cluster.Stop returns what memberlist.Shutdown returns.  It does nothing *)
(* else: the sendToNode goroutines already launched are left alone.        *)
(***************************************************************************)
\* Mutant: Stop cancels the sends of the node that have not been made yet.
TasksAfterStop_Cancel(ts, n) ==
    {t \in ts : ~(calls[t.call].from = n /\ t.status = "pending")}

TasksAfterStop(ts, n) == ts

Stop(n, shutdownFailed) ==
    /\ ~aborted[n]
    /\ lifecycle' = [lifecycle EXCEPT ![n] = "Stopped"]
    /\ tasks' = TasksAfterStop(tasks, n)
    /\ last' = [op |-> "Stop", node |-> n, shutdownFailed |-> shutdownFailed,
                err |-> IF shutdownFailed THEN ErrShutdown ELSE NoError]
    /\ UNCHANGED <<Config, aborted, callbacks, subs, MessageHandler, counters, members,
                   calls, wire, handled>>

(***************************************************************************)
(* Cluster.Check. healthScore is what memberlist.GetHealthScore returns.   *)
(***************************************************************************)
\* Mutant: a score equal to the threshold is unhealthy.
CheckOutcome_Strict(healthScore, threshold) ==
    IF healthScore >= threshold THEN ErrHealth ELSE NoError

CheckOutcome(healthScore, threshold) ==
    IF healthScore > threshold THEN ErrHealth ELSE NoError

Check(n, healthScore) ==
    /\ ~aborted[n]
    /\ last' = [op |-> "Check", node |-> n, healthScore |-> healthScore,
                threshold |-> Config[n].HealthScoreThreshold,
                err |-> CheckOutcome(healthScore, Config[n].HealthScoreThreshold)]
    /\ UNCHANGED <<Config, aborted, callbacks, subs, MessageHandler, lifecycle, counters, fanout, handled>>

(***************************************************************************)
(* memberlist.EventDelegate callbacks.                                     *)
(***************************************************************************)
TotalEvents ==
    LET sum(f) == f[1] + f[2] IN sum(numJoins) + sum(numLeaves) + sum(numUpdates)

NotifyJoin(n) ==
    /\ ~aborted[n]
    /\ TotalEvents < MaxEvents
    /\ numJoins' = [numJoins EXCEPT ![n] = @ + 1]
    /\ last' = [op |-> "NotifyJoin", node |-> n]
    /\ UNCHANGED <<Config, aborted, callbacks, subs, MessageHandler, lifecycle, numLeaves, numUpdates, fanout, handled>>

NotifyLeave(n) ==
    /\ ~aborted[n]
    /\ TotalEvents < MaxEvents
    /\ numLeaves' = [numLeaves EXCEPT ![n] = @ + 1]
    /\ last' = [op |-> "NotifyLeave", node |-> n]
    /\ UNCHANGED <<Config, aborted, callbacks, subs, MessageHandler, lifecycle, numJoins, numUpdates, fanout, handled>>

NotifyUpdate(n) ==
    /\ ~aborted[n]
    /\ TotalEvents < MaxEvents
    /\ numUpdates' = [numUpdates EXCEPT ![n] = @ + 1]
    /\ last' = [op |-> "NotifyUpdate", node |-> n]
    /\ UNCHANGED <<Config, aborted, callbacks, subs, MessageHandler, lifecycle, numJoins, numLeaves, fanout, handled>>

(***************************************************************************)
(* The same callbacks run by goroutines of the provider that overlap.      *)
(* cluster.numJoins++ (and numLeaves++, numUpdates++) is a plain read and  *)
(* a plain write of the field, with no lock and no atomic: IncrementLoad   *)
(* is the read into a register of the goroutine, IncrementStore the write  *)
(* of the register plus one, after which the callback returns.             *)
(***************************************************************************)
CounterOf(n, e) ==
    IF e = "join" THEN numJoins[n] ELSE IF e = "leave" THEN numLeaves[n] ELSE numUpdates[n]

\* The callbacks entered so far: those that returned and those under way.
CallbacksBegun ==
    LET sum(f) == f["join"] + f["leave"] + f["update"] IN
    sum(callbacks.returned[1]) + sum(callbacks.returned[2])
        + Cardinality({c \in Contexts : callbacks.running[c].pc = "loaded"})

IncrementLoad(c, n, e) ==
    /\ ~aborted[n]
    /\ callbacks.running[c].pc = "idle"
    /\ CallbacksBegun < MaxCallbacks
    /\ callbacks' = [callbacks EXCEPT !.running[c] =
                        [pc |-> "loaded", node |-> n, event |-> e, reg |-> CounterOf(n, e)]]
    /\ UNCHANGED <<Config, aborted, subs, MessageHandler, lifecycle, counters, fanout,
                   handled, last>>

IncrementStore(c) ==
    LET r == callbacks.running[c] IN
    /\ r.pc = "loaded"
    /\ ~aborted[r.node]
    /\ numJoins' = IF r.event = "join"
                    THEN [numJoins EXCEPT ![r.node] = r.reg + 1] ELSE numJoins
    /\ numLeaves' = IF r.event = "leave"
                    THEN [numLeaves EXCEPT ![r.node] = r.reg + 1] ELSE numLeaves
    /\ numUpdates' = IF r.event = "update"
                    THEN [numUpdates EXCEPT ![r.node] = r.reg + 1] ELSE numUpdates
    /\ callbacks' = [callbacks EXCEPT !.running[c] = Idle,
                                      !.returned[r.node][r.event] = @ + 1]
    /\ UNCHANGED <<Config, aborted, subs, MessageHandler, lifecycle, fanout, handled, last>>

(***************************************************************************)
(* memberlist.ConflictDelegate: NotifyConflict logs at Panic level, which  *)
(* panics; nothing recovers, so the process of the node ends and none of   *)
(* its operations, callbacks or goroutines runs any more.                  *)
(***************************************************************************)
\* Mutant: the conflict is logged and the node carries on.
AfterConflict_LogOnly(ab, n) == ab

AfterConflict(ab, n) == [ab EXCEPT ![n] = TRUE]

NotifyConflict(n) ==
    /\ ~aborted[n]
    /\ aborted' = AfterConflict(aborted, n)
    /\ last' = [op |-> "NotifyConflict", node |-> n]
    /\ UNCHANGED <<Config, callbacks, subs, MessageHandler, lifecycle, counters, fanout,
                   handled>>

(***************************************************************************)
(* The provider's membership list changes as peers come and go.            *)
(***************************************************************************)
MemberJoins(n, m) ==
    /\ m \notin members[n]
    /\ members' = [members EXCEPT ![n] = @ \cup {m}]
    /\ UNCHANGED <<Config, aborted, callbacks, subs, MessageHandler, lifecycle, counters, calls, tasks, wire,
                   handled, last>>

MemberLeaves(n, m) ==
    /\ m \in members[n]
    /\ members' = [members EXCEPT ![n] = @ \ {m}]
    /\ UNCHANGED <<Config, aborted, callbacks, subs, MessageHandler, lifecycle, counters, calls, tasks, wire,
                   handled, last>>

(***************************************************************************)
(* Cluster.BroadcastString, Cluster.BroadcastMessage and                   *)
(* Cluster.broadcastClusterMessage.  The nil check never fires for the     *)
(* envelopes the two public operations build.  encodeFailed is whether     *)
(* cMessage.encode() returned an error; the codec encodes every envelope,  *)
(* so BroadcastString and BroadcastMessage are the calls whose encoding    *)
(* worked, and broadcast with encodeFailed = TRUE is a call made while the *)
(* serialisation mechanism is failing.                                     *)
(***************************************************************************)
\* Mutant: the loop does not skip the node's own name.
FanOutTargets_All(selfName, memberNames) == memberNames

\* The loop over memberlist.Members() skipping the node's own name.
FanOutTargets(selfName, memberNames) == {m \in memberNames : m # selfName}

\* Mutant: the send is made inline, before the call returns.
Launch_Inline(id, bytes, targets) ==
    {[call |-> id, to |-> m, bytes |-> bytes, status |-> "sent", attempts |-> 1] :
        m \in targets}

\* go cluster.sendToNode(node, cMessageBytes), once per target.
Launch(id, bytes, targets) ==
    {[call |-> id, to |-> m, bytes |-> bytes, status |-> "pending", attempts |-> 0] :
        m \in targets}

broadcast(n, op, input, cMessage, encodeFailed) ==
    LET bytes == IF encodeFailed THEN <<>> ELSE encode(cMessage)
        err == IF encodeFailed THEN ErrEncode ELSE NoError
        id == Len(calls) + 1
    IN  /\ ~aborted[n]
        /\ Len(calls) < MaxCalls
        /\ calls' = Append(calls, [from |-> n, op |-> op, input |-> input,
                                   cmsg |-> cMessage, bytes |-> bytes,
                                   members |-> members[n],
                                   started |-> {k \in Nodes : lifecycle[k] = "Started"},
                                   err |-> err])
        /\ tasks' = IF encodeFailed
                        THEN tasks
                        ELSE tasks \cup Launch(id, bytes,
                                               FanOutTargets(name(Config[n].ID), members[n]))
        /\ last' = [op |-> op, node |-> n, err |-> err]
        /\ UNCHANGED <<Config, aborted, callbacks, subs, MessageHandler, lifecycle, counters,
                       members, wire, handled>>

broadcastClusterMessage(n, op, input, cMessage) == broadcast(n, op, input, cMessage, FALSE)

\* Mutant: the envelope does not name the broadcasting node as its sender.
StringEnvelope_NoSender(n, sMessage) == message(0, stringMessage, sMessage)

\* The envelope BroadcastString builds.
StringEnvelope(n, sMessage) == message(Config[n].ID, stringMessage, sMessage)

\* The envelope BroadcastMessage builds.
MessageEnvelope(n, pMessage) == message(Config[n].ID, gubleMessage, Bytes(pMessage))

BroadcastString(n, sMessage) ==
    broadcastClusterMessage(n, "BroadcastString", sMessage, StringEnvelope(n, sMessage))

\* Mutant: the envelope is tagged with the wrong kind.
BroadcastMessage_AsString(n, pMessage) ==
    broadcastClusterMessage(n, "BroadcastMessage", pMessage,
                            message(Config[n].ID, stringMessage, Bytes(pMessage)))

BroadcastMessage(n, pMessage) ==
    broadcastClusterMessage(n, "BroadcastMessage", pMessage, MessageEnvelope(n, pMessage))

(***************************************************************************)
(* Cluster.sendToNode, run in its own goroutine.  ok is whether            *)
(* memberlist.SendToTCP returned no error; a failure is only logged.       *)
(***************************************************************************)
\* Mutant: a failed send is left to be tried again.
SendToNodeResult_Retry(t, ok) ==
    [t EXCEPT !.status = IF ok THEN "sent" ELSE "pending", !.attempts = @ + 1]

SendToNodeResult(t, ok) ==
    [t EXCEPT !.status = IF ok THEN "sent" ELSE "failed", !.attempts = @ + 1]

\* Mutant: a failed send gives up the sends of the same call not yet made.
TasksAfterSend_AbortOnError(ts, t, ok) ==
    IF ok
        THEN (ts \ {t}) \cup {[t EXCEPT !.status = "sent", !.attempts = @ + 1]}
        ELSE {IF u.call = t.call /\ u.status = "pending"
                THEN [u EXCEPT !.status = "failed", !.attempts = IF u = t THEN 1 ELSE 0]
                ELSE u : u \in ts}

TasksAfterSend(ts, t, ok) == (ts \ {t}) \cup {SendToNodeResult(t, ok)}

sendToNode(t, ok) ==
    /\ t \in tasks
    /\ t.status = "pending"
    /\ ~aborted[calls[t.call].from]
    /\ tasks' = TasksAfterSend(tasks, t, ok)
    /\ wire' = IF ok
                THEN wire \cup {[call |-> t.call, to |-> t.to, bytes |-> t.bytes]}
                ELSE wire
    /\ UNCHANGED <<Config, aborted, callbacks, subs, MessageHandler, lifecycle, counters, members, calls,
                   handled, last>>

(***************************************************************************)
(* Cluster.NotifyMsg.  Dispatch gives the messages handed to               *)
(* MessageHandler.HandleMessage by one call: none or one.                  *)
(***************************************************************************)
\* Mutant: the MessageHandler is called without testing it for nil.
Dispatch_NoNilCheck(handlerSet, msg) ==
    LET d == decode(msg) IN
    IF ~d.ok
        THEN <<>>
        ELSE IF d.cmsg.Type = gubleMessage
            THEN LET p == ParseMessage(d.cmsg.Body) IN
                 IF ~p.ok THEN <<>> ELSE <<p.msg>>
            ELSE <<>>

\* Mutant: the kind of the envelope is not looked at.
Dispatch_AnyKind(handlerSet, msg) ==
    LET d == decode(msg) IN
    IF ~d.ok
        THEN <<>>
        ELSE IF handlerSet
            THEN LET p == ParseMessage(d.cmsg.Body) IN
                 IF ~p.ok THEN <<>> ELSE <<p.msg>>
            ELSE <<>>

\* Mutant: a body that fails to parse is handed over as an empty message.
Dispatch_IgnoreParseError(handlerSet, msg) ==
    LET d == decode(msg) IN
    IF ~d.ok
        THEN <<>>
        ELSE IF handlerSet /\ d.cmsg.Type = gubleMessage
            THEN LET p == ParseMessage(d.cmsg.Body) IN
                 IF ~p.ok THEN <<EmptyMessage>> ELSE <<p.msg>>
            ELSE <<>>

Dispatch(handlerSet, msg) ==
    LET d == decode(msg) IN
    IF ~d.ok
        THEN <<>>
        ELSE IF handlerSet /\ d.cmsg.Type = gubleMessage
            THEN LET p == ParseMessage(d.cmsg.Body) IN
                 IF ~p.ok THEN <<>> ELSE <<p.msg>>
            ELSE <<>>

TotalHandled == Len(handled[1]) + Len(handled[2])

\* The entries NotifyMsg writes to the log at Error level.  handlerFailed is
\* whether HandleMessage, when it was called, returned an error: that result
\* is discarded.
ErrorsLogged(handlerSet, msg, handlerFailed) ==
    LET d == decode(msg) IN
    IF ~d.ok
        THEN <<"Decoding of cluster message failed">>
        ELSE IF handlerSet /\ d.cmsg.Type = gubleMessage
            THEN IF ~ParseMessage(d.cmsg.Body).ok
                    THEN <<"Parsing of guble-message contained in cluster-message failed">>
                    ELSE <<>>
            ELSE <<>>

NotifyMsg(n, msg, call) ==
    LET out == Dispatch(MessageHandler[n], msg) IN
    /\ ~aborted[n]
    /\ handled' = [handled EXCEPT ![n] =
                      @ \o [i \in 1..Len(out) |-> [message |-> out[i], call |-> call]]]
    /\ \E handlerFailed \in IF Len(out) > 0 THEN BOOLEAN ELSE {FALSE} :
        last' = [op |-> "NotifyMsg", node |-> n, msg |-> msg,
                 handler |-> MessageHandler[n], invoked |-> Len(out),
                 handlerFailed |-> handlerFailed,
                 logged |-> ErrorsLogged(MessageHandler[n], msg, handlerFailed)]
    /\ UNCHANGED <<Config, aborted, callbacks, subs, MessageHandler, lifecycle, counters, members, calls, tasks>>

\* The provider hands over bytes that arrived from some peer.
Receive(n, msg) ==
    /\ TotalHandled < MaxHandled
    /\ NotifyMsg(n, msg, 0)
    /\ UNCHANGED wire

\* The provider hands over a message that a sendToNode put on the wire.
Deliver(w) ==
    /\ w \in wire
    /\ wire' = wire \ {w}
    /\ IF \E n \in Nodes : name(n) = w.to /\ ~aborted[n]
          THEN \E n \in Nodes : name(n) = w.to /\ NotifyMsg(n, w.bytes, w.call)
          ELSE UNCHANGED <<Config, aborted, callbacks, subs, MessageHandler, lifecycle, counters, members, calls,
                           tasks, handled, last>>

(***************************************************************************)
(* The APNS connector of a node (package apns): the subscriptions it holds *)
(* in Connector.subs, and its handlers for adding and deleting one.        *)
(***************************************************************************)
\* A topic is the sequence of the path segments that follow "subscribe".
Topics == {<<"foo">>, <<"bar">>}
UserIDs == {"user01"}
ApnsIDs == {"device01"}

\* conn.prefix and subscribePrefixPath, as path segments.
Prefix == "apns"
subscribePrefixPath == "subscribe"

\* HTTP methods of the requests; PUT stands for every method not supported.
Methods == {"POST", "DELETE", "GET", "PUT"}

\* URL paths of the requests, as sequences of segments: well-formed ones,
\* one under another prefix, one with too few parameters, one whose third
\* parameter is not "subscribe", and one that names no topic.
Paths ==
    {<<Prefix, u, a, subscribePrefixPath>> \o t :
        u \in UserIDs, a \in ApnsIDs, t \in Topics}
    \cup {<<"gcm", "user01", "device01", subscribePrefixPath, "foo">>,
          <<Prefix, "user01">>,
          <<Prefix, "user01", "device01", "other", "foo">>,
          <<Prefix, "user01", "device01", subscribePrefixPath>>}

\* Connector.parseUserIDAndDeviceID: the prefix, then exactly three
\* parameters, the third being all that is left of the path.
parseUserIDAndDeviceID(path) ==
    IF Len(path) = 0
        THEN [ok |-> FALSE]
        ELSE IF path[1] # Prefix \/ Len(path) < 4
            THEN [ok |-> FALSE]
            ELSE [ok |-> TRUE, userID |-> path[2], apnsID |-> path[3],
                  unparsedPath |-> SubSeq(path, 4, Len(path))]

\* Connector.parseTopic: the path left must start with "subscribe/"; the
\* topic is what follows "subscribe".
parseTopic(unparsedPath) ==
    IF Len(unparsedPath) < 2
        THEN [ok |-> FALSE]
        ELSE IF unparsedPath[1] # subscribePrefixPath
            THEN [ok |-> FALSE]
            ELSE [ok |-> TRUE, topic |-> Tail(unparsedPath)]

\* composeSubscriptionKey: the three parts, in the order they are formatted.
composeSubscriptionKey(topic, userID, apnsID) == <<topic, apnsID, userID>>

errSubscriptionExists == "subscription already exists"
ErrInit == "initSubscription error"

\* The errors initSubscription can return for a key, given the connector's
\* subscriptions: it refuses a key that is there, and can fail otherwise.
InitErrors(s, key) == IF key \in s THEN {errSubscriptionExists} ELSE {NoError, ErrInit}

\* Connector.subs after initSubscription returned err.
SubsAfterInit(s, key, err) == IF err = NoError THEN s \cup {key} ELSE s

\* Connector.subs after sub.remove().
SubsAfterRemove(s, key) == s \ {key}

\* Mutant: the hook applies the change to the subscriptions of the other nodes.
synchronizeSubscription_Propagate(all, n, key, remove) ==
    [err |-> NoError,
     subs |-> [k \in Nodes |->
                IF k = n THEN all[k]
                ELSE IF remove THEN all[k] \ {key} ELSE all[k] \cup {key}]]

\* Connector.synchronizeSubscription: returns nil and does nothing.  all is
\* the subscriptions of every node; the result gives them after the call.
synchronizeSubscription(all, n, key, remove) == [err |-> NoError, subs |-> all]

addSubscription(n, topic, userID, apnsID, err) ==
    LET key == composeSubscriptionKey(topic, userID, apnsID)
        stored == [subs EXCEPT ![n] = SubsAfterInit(@, key, err)]
        sync == IF err = NoError
                    THEN synchronizeSubscription(stored, n, key, FALSE)
                    ELSE [err |-> NoError, subs |-> stored]
    IN  /\ ~aborted[n]
        /\ err \in InitErrors(subs[n], key)
        /\ subs' = sync.subs
        /\ last' = [op |-> "addSubscription", node |-> n, key |-> key, topic |-> topic,
                    err |-> err, synced |-> (err = NoError), syncErr |-> sync.err,
                    response |-> IF err = errSubscriptionExists
                                    THEN [kind |-> "error", value |-> errSubscriptionExists,
                                          status |-> 200]
                                    ELSE [kind |-> "subscribed", value |-> topic,
                                          status |-> 200]]
        /\ UNCHANGED <<Config, aborted, callbacks, MessageHandler, lifecycle, counters,
                       fanout, handled>>

\* Mutant: the subscription is not looked up before it is deleted.
Lookup_AlwaysFound(s, key) == TRUE

\* s, ok := conn.subs[subscriptionKey]
Lookup(s, key) == key \in s

\* Mutant: the subscription is removed before the hook is called.
SubsAtSync_Removed(s, key) == s \ {key}

\* Connector.subs when deleteSubscription calls the hook: s.remove() comes
\* after the call.
SubsAtSync(s, key) == s

deleteSubscription(n, topic, userID, apnsID) ==
    LET key == composeSubscriptionKey(topic, userID, apnsID)
        ok == Lookup(subs[n], key)
        atSync == [subs EXCEPT ![n] = SubsAtSync(@, key)]
        sync == IF ok
                    THEN synchronizeSubscription(atSync, n, key, TRUE)
                    ELSE [err |-> NoError, subs |-> subs]
    IN  /\ ~aborted[n]
        /\ subs' = IF ok
                    THEN [sync.subs EXCEPT ![n] = SubsAfterRemove(@, key)]
                    ELSE subs
        /\ last' = [op |-> "deleteSubscription", node |-> n, key |-> key, topic |-> topic,
                    found |-> ok, synced |-> ok, syncErr |-> sync.err,
                    heldAtSync |-> ok /\ key \in atSync[n],
                    response |-> IF ok
                                    THEN [kind |-> "unsubscribed", value |-> topic,
                                          status |-> 200]
                                    ELSE [kind |-> "error", value |-> "subscription not found",
                                          status |-> 404]]
        /\ UNCHANGED <<Config, aborted, callbacks, MessageHandler, lifecycle, counters,
                       fanout, handled>>

\* Connector.retrieveSubscription: the topics of the subscriptions of one
\* user and device (the code sorts them; the set stands for the sorted list).
retrieveSubscription(n, userID, apnsID) ==
    /\ ~aborted[n]
    /\ last' = [op |-> "retrieveSubscription", node |-> n,
                response |-> [kind |-> "topics",
                              value |-> {t \in Topics :
                                            composeSubscriptionKey(t, userID, apnsID)
                                                \in subs[n]},
                              status |-> 200]]
    /\ UNCHANGED <<Config, aborted, callbacks, subs, MessageHandler, lifecycle, counters,
                   fanout, handled>>

\* A request that ServeHTTP answers with http.Error and nothing else.
Rejected(n, method, value, status) ==
    /\ ~aborted[n]
    /\ last' = [op |-> "ServeHTTP", node |-> n, method |-> method,
                response |-> [kind |-> "error", value |-> value, status |-> status]]
    /\ UNCHANGED <<Config, aborted, callbacks, subs, MessageHandler, lifecycle, counters,
                   fanout, handled>>

\* Mutant: every method other than DELETE and GET is taken for a POST.
Supported_Any(method) == TRUE

\* r.Method is POST, DELETE or GET.
Supported(method) == method \in {"POST", "DELETE", "GET"}

\* Connector.ServeHTTP.
ServeHTTP(n, method, path) ==
    LET ids == parseUserIDAndDeviceID(path) IN
    IF ~Supported(method)
        THEN Rejected(n, method, "method not allowed", 405)
        ELSE IF ~ids.ok
            THEN Rejected(n, method, "invalid parameters in request", 400)
            ELSE IF method = "GET"
                THEN retrieveSubscription(n, ids.userID, ids.apnsID)
                ELSE LET t == parseTopic(ids.unparsedPath) IN
                     IF ~t.ok
                        THEN Rejected(n, method, "invalid parameters in request", 400)
                        ELSE IF method = "DELETE"
                            THEN deleteSubscription(n, t.topic, ids.userID, ids.apnsID)
                            ELSE \E err \in {NoError, errSubscriptionExists, ErrInit} :
                                    addSubscription(n, t.topic, ids.userID, ids.apnsID, err)

(***************************************************************************)
(* Spec: lifecycle, health check and membership events.                    *)
(***************************************************************************)
Next ==
    \E n \in Nodes :
        \/ SetMessageHandler(n)
        \/ \E num \in 0..MaxContacted, joinFailed \in BOOLEAN : Start(n, num, joinFailed)
        \/ \E shutdownFailed \in BOOLEAN : Stop(n, shutdownFailed)
        \/ \E healthScore \in 0..MaxHealthScore : Check(n, healthScore)
        \/ NotifyJoin(n)
        \/ NotifyLeave(n)
        \/ NotifyUpdate(n)

Spec == Init /\ [][Next]_vars

(***************************************************************************)
(* SpecBroadcast: the fan-out of Broadcast* under a changing membership.   *)
(***************************************************************************)
NextBroadcast ==
    \/ \E n \in Nodes, m \in MemberNames : MemberJoins(n, m)
    \/ \E n \in Nodes, m \in MemberNames : MemberLeaves(n, m)
    \/ \E n \in Nodes, s \in Strings : BroadcastString(n, s)
    \/ \E n \in Nodes : BroadcastMessage(n, EmptyMessage)
    \/ \E t \in tasks, ok \in BOOLEAN : sendToNode(t, ok)

SpecBroadcast == Created({DefaultConfig}) /\ [][NextBroadcast]_vars

(***************************************************************************)
(* SpecDispatch: inbound messages of any content, handler set or not.      *)
(***************************************************************************)
NextDispatch ==
    \/ \E n \in Nodes : SetMessageHandler(n)
    \/ \E n \in Nodes, msg \in RawMsgs : Receive(n, msg)

SpecDispatch == Created({DefaultConfig}) /\ [][NextDispatch]_vars

(***************************************************************************)
(* SpecEndToEnd: two coordinators, one BroadcastMessage, and a provider    *)
(* whose point-to-point send delivers reliably: every launched sendToNode  *)
(* runs and succeeds, and every message on the wire is handed over.        *)
(***************************************************************************)
SendReliably == \E t \in tasks : sendToNode(t, TRUE)

HandOver == \E w \in wire : Deliver(w)

NextEndToEnd ==
    \/ \E n \in Nodes : SetMessageHandler(n)
    \/ \E n \in Nodes, num \in 0..MaxContacted, joinFailed \in BOOLEAN :
            Start(n, num, joinFailed)
    \/ \E n \in Nodes, k \in Nodes : MemberJoins(n, name(k))
    \/ \E n \in Nodes, m \in AppMessages : Len(calls) = 0 /\ BroadcastMessage(n, m)
    \/ SendReliably
    \/ HandOver

SpecEndToEnd ==
    /\ Created({DefaultConfig})
    /\ [][NextEndToEnd]_vars
    /\ WF_vars(SendReliably)
    /\ WF_vars(HandOver)

(***************************************************************************)
(* SpecConflict: a node that broadcasts, dispatches and counts joins, and  *)
(* may be told of a name conflict at any moment.                           *)
(***************************************************************************)
NextConflict ==
    \/ \E n \in Nodes : SetMessageHandler(n)
    \/ \E n \in Nodes : NotifyJoin(n)
    \/ \E n \in Nodes : \E k \in Nodes \ {n} : MemberJoins(n, name(k))
    \/ \E n \in Nodes, s \in Strings : BroadcastString(n, s)
    \/ SendReliably
    \/ \E n \in Nodes : Receive(n, AppSample)
    \/ \E n \in Nodes : NotifyConflict(n)

SpecConflict == Created({DefaultConfig}) /\ [][NextConflict]_vars

(***************************************************************************)
(* SpecRace: event callbacks invoked from goroutines that overlap.         *)
(***************************************************************************)
NextRace ==
    \/ \E c \in Contexts, n \in Nodes, e \in Events : IncrementLoad(c, n, e)
    \/ \E c \in Contexts : IncrementStore(c)

SpecRace == Created({DefaultConfig}) /\ [][NextRace]_vars

(***************************************************************************)
(* SpecEncode: broadcasts made while the serialisation may fail.           *)
(***************************************************************************)
NextEncode ==
    \/ \E n \in Nodes, m \in MemberNames : MemberJoins(n, m)
    \/ \E n \in Nodes, s \in Strings, encodeFailed \in BOOLEAN :
            broadcast(n, "BroadcastString", s, StringEnvelope(n, s), encodeFailed)
    \/ \E n \in Nodes, m \in AppMessages, encodeFailed \in BOOLEAN :
            broadcast(n, "BroadcastMessage", m, MessageEnvelope(n, m), encodeFailed)
    \/ SendReliably

SpecEncode == Created({DefaultConfig}) /\ [][NextEncode]_vars

(***************************************************************************)
(* SpecStop: broadcasts, their send goroutines and Stop in any order.  The *)
(* Go scheduler runs every goroutine it was given, and SendToTCP returns.  *)
(***************************************************************************)
Attempt == \E t \in tasks, ok \in BOOLEAN : sendToNode(t, ok)

NextStop ==
    \/ \E n \in Nodes, m \in MemberNames : MemberJoins(n, m)
    \/ \E n \in Nodes, s \in Strings : BroadcastString(n, s)
    \/ \E n \in Nodes, shutdownFailed \in BOOLEAN : Stop(n, shutdownFailed)
    \/ Attempt

SpecStop == Created({DefaultConfig}) /\ [][NextStop]_vars /\ WF_vars(Attempt)

(***************************************************************************)
(* SpecLive: inbound messages at a node before, between and after its      *)
(* Start() calls, failed or not, with or without a handler.                *)
(***************************************************************************)
NextLive ==
    \/ \E n \in Nodes : SetMessageHandler(n)
    \/ \E n \in Nodes, num \in 0..MaxContacted, joinFailed \in BOOLEAN :
            Start(n, num, joinFailed)
    \/ \E n \in Nodes, msg \in InboundSamples : Receive(n, msg)

SpecLive == Created({DefaultConfig}) /\ [][NextLive]_vars

(***************************************************************************)
(* SpecApns: HTTP requests to the connectors of the two nodes, which add,  *)
(* delete and list subscriptions.                                          *)
(***************************************************************************)
NextApns == \E n \in Nodes, method \in Methods, path \in Paths : ServeHTTP(n, method, path)

SpecApns == Created({DefaultConfig}) /\ [][NextApns]_vars

(***************************************************************************)
(* Claims about Start and Check, under Spec.                               *)
(***************************************************************************)
\* C1: a Start() that finds no MessageHandler returns an error and does not
\* call the provider's join.
C1_StartWithoutHandler ==
    (last.op = "Start" /\ ~last.handler) =>
        (last.err # NoError /\ last.err = ErrNoHandler /\ last.joins = 0)

C1_Witness ==
    /\ last.op = "Start"
    /\ ~last.handler
    /\ last.err = ErrNoHandler

\* C2: with a MessageHandler set, Start() succeeds exactly when the join
\* returned no error and contacted at least one address; it fails when the
\* join errs and when the join contacted nobody.
C2_StartIffJoined ==
    (last.op = "Start" /\ last.handler) =>
        /\ last.joins = 1
        /\ last.err = NoError <=> (~last.joinFailed /\ last.num >= 1)
        /\ last.joinFailed => last.err # NoError
        /\ (~last.joinFailed /\ last.num = 0) => last.err # NoError

C2_Witness ==
    /\ last.op = "Start"
    /\ last.handler
    /\ ~last.joinFailed
    /\ last.num = 0
    /\ last.err = ErrNoRemotes

\* C3: Check() returns no error exactly when the health score is at most the
\* threshold of the node's Config (equal is healthy), and a Check() changes
\* neither the counters, the handler, the lifecycle state, the membership,
\* nor anything sent or handled.  (Every action of Spec records itself in
\* last, so a step that ends with last.op = "Check" is a Check.)
C3_CheckThreshold ==
    /\ [](last.op = "Check" =>
            (last.err = NoError <=>
                last.healthScore <= Config[last.node].HealthScoreThreshold))
    /\ [][last'.op = "Check" =>
            UNCHANGED <<Config, aborted, callbacks, subs, MessageHandler, lifecycle, counters, fanout, handled>>]_vars

C3_Witness ==
    /\ last.op = "Check"
    /\ last.healthScore = Config[last.node].HealthScoreThreshold
    /\ last.healthScore > 0
    /\ last.err = NoError
    /\ MessageHandler[last.node]
    /\ lifecycle[last.node] = "Started"
    /\ numJoins[last.node] > 0

(***************************************************************************)
(* Claims about the broadcast fan-out, under SpecBroadcast.                *)
(***************************************************************************)
CallIds == 1..Len(calls)

TasksOf(c) == {t \in tasks : t.call = c}

SelfName(c) == name(Config[calls[c].from].ID)

\* C4: no Broadcast* ever launches a send, and nothing is put on the wire,
\* to a member whose name is the broadcasting node's own name.
C4_SelfExclusion ==
    /\ \A t \in tasks : t.to # SelfName(t.call)
    /\ \A w \in wire : w.to # SelfName(w.call)

C4_Witness ==
    \E c \in CallIds :
        /\ SelfName(c) \in calls[c].members
        /\ Cardinality(TasksOf(c)) = 2
        /\ \A t \in TasksOf(c) : t.status = "sent"

C6_FailureIsolation ==
    \A t \in tasks :
        t.status = "failed" =>
            /\ t.attempts = 1
            /\ ~ENABLED (\E ok \in BOOLEAN : sendToNode(t, ok))
            /\ calls[t.call].err = NoError
            /\ {u.to : u \in TasksOf(t.call)} = calls[t.call].members \ {SelfName(t.call)}
            /\ \A u \in TasksOf(t.call) \ {t} :
                \/ u.status = "pending" /\ u.attempts = 0 /\ ENABLED sendToNode(u, TRUE)
                \/ u.status \in {"sent", "failed"} /\ u.attempts = 1

C6_Witness ==
    \E t \in tasks, u \in tasks :
        /\ t.call = u.call
        /\ t.status = "failed"
        /\ u.status = "sent"
        /\ [call |-> u.call, to |-> u.to, bytes |-> u.bytes] \in wire

\* C7: a Broadcast* call returns, without error, as soon as it has launched
\* one send task per non-self member: when it returns none of its sends has
\* started, nothing of it is on the wire, and the earlier tasks are as they
\* were.
C7_ReturnsBeforeSends ==
    [][Len(calls') > Len(calls) =>
        /\ Len(calls') = Len(calls) + 1
        /\ last'.op \in {"BroadcastString", "BroadcastMessage"}
        /\ last'.err = NoError
        /\ wire' = wire
        /\ {t \in tasks' : t.call <= Len(calls)} = tasks
        /\ {t.to : t \in {u \in tasks' : u.call = Len(calls')}}
                = members[last'.node] \ {name(Config[last'.node].ID)}
        /\ \A t \in tasks' :
                t.call = Len(calls') => (t.status = "pending" /\ t.attempts = 0)]_vars

C7_Witness ==
    \E c \in CallIds :
        /\ last.op \in {"BroadcastString", "BroadcastMessage"}
        /\ last.err = NoError
        /\ Cardinality(TasksOf(c)) = 2
        /\ \A t \in TasksOf(c) : t.status = "pending"

(***************************************************************************)
(* Claims about the inbound dispatch, under SpecDispatch.                  *)
(***************************************************************************)
\* The received bytes decode to an applicationMessage whose body parses.
WellFormedApp(msg) ==
    /\ decode(msg).ok
    /\ decode(msg).cmsg.Type = gubleMessage
    /\ ParseMessage(decode(msg).cmsg.Body).ok

\* The received bytes do not decode, or decode to an applicationMessage whose
\* body does not parse.
Malformed(msg) ==
    \/ ~decode(msg).ok
    \/ /\ decode(msg).cmsg.Type = gubleMessage
       /\ ~ParseMessage(decode(msg).cmsg.Body).ok

\* C8: for an inbound message that decodes, received while a MessageHandler
\* is registered, the handler is invoked exactly once when the kind is
\* applicationMessage and the body parses, and not at all when the kind is
\* stringMessage.
C8_DispatchFiltering ==
    (last.op = "NotifyMsg" /\ last.handler /\ decode(last.msg).ok) =>
        /\ WellFormedApp(last.msg) =>
            /\ last.invoked = 1
            /\ Len(handled[last.node]) >= 1
            /\ handled[last.node][Len(handled[last.node])].message
                    = ParseMessage(decode(last.msg).cmsg.Body).msg
        /\ decode(last.msg).cmsg.Type = stringMessage => last.invoked = 0

C8_Witness ==
    /\ last.op = "NotifyMsg"
    /\ last.handler
    /\ decode(last.msg).ok
    /\ decode(last.msg).cmsg.Type = stringMessage
    /\ ParseMessage(decode(last.msg).cmsg.Body).ok
    /\ last.invoked = 0
    /\ Len(handled[last.node]) = 1

\* C9: a malformed inbound message invokes no handler and changes nothing
\* of the coordinator, of what is queued or sent, or of what was handled;
\* and a well-formed application message that arrives right after it, with
\* a handler registered, is handed to the handler.
C9_MalformedDropped ==
    /\ []((last.op = "NotifyMsg" /\ Malformed(last.msg)) => last.invoked = 0)
    /\ [][(last'.op = "NotifyMsg" /\ Malformed(last'.msg)) =>
            UNCHANGED <<Config, aborted, callbacks, subs, MessageHandler, lifecycle, counters, fanout, handled>>]_vars
    /\ [][(/\ last.op = "NotifyMsg"
           /\ Malformed(last.msg)
           /\ last'.op = "NotifyMsg"
           /\ last'.handler
           /\ WellFormedApp(last'.msg)) =>
            handled'[last'.node] =
                Append(handled[last'.node],
                       [message |-> ParseMessage(decode(last'.msg).cmsg.Body).msg,
                        call |-> 0])]_vars

C9_Witness ==
    /\ last.op = "NotifyMsg"
    /\ last.handler
    /\ decode(last.msg).ok
    /\ decode(last.msg).cmsg.Type = gubleMessage
    /\ ~ParseMessage(decode(last.msg).cmsg.Body).ok
    /\ last.invoked = 0
    /\ Len(handled[last.node]) = 1

(***************************************************************************)
(* The end-to-end claim, under SpecEndToEnd.                               *)
(***************************************************************************)
\* The calls of node n's handler that came from broadcast call c.
HandledFrom(n, c) == {i \in 1..Len(handled[n]) : handled[n][i].call = c}

\* Broadcast call 1 is a BroadcastMessage made by node a while a and b were
\* both started and a's membership list named b.
EndToEndCase(a, b) ==
    /\ Len(calls) >= 1
    /\ calls[1].op = "BroadcastMessage"
    /\ calls[1].from = a
    /\ calls[1].started = {a, b}
    /\ name(b) \in calls[1].members

\* C10: A and B both started, A's list naming B, sends delivering reliably:
\* one BroadcastMessage(m) on A leads to B's handler being invoked with a
\* message equal to m, B's handler is never invoked twice for it, and A's
\* own handler is never invoked for it.
C10_EndToEnd ==
    \A a \in Nodes : \A b \in Nodes \ {a} :
        /\ [](EndToEndCase(a, b) =>
                /\ HandledFrom(a, 1) = {}
                /\ Cardinality(HandledFrom(b, 1)) <= 1
                /\ \A i \in HandledFrom(b, 1) :
                        handled[b][i].message = calls[1].input)
        /\ EndToEndCase(a, b) ~> (Cardinality(HandledFrom(b, 1)) = 1)

C10_Witness ==
    /\ EndToEndCase(1, 2)
    /\ calls[1].input # EmptyMessage
    /\ handled[2] = <<[message |-> calls[1].input, call |-> 1]>>
    /\ handled[1] = <<>>
    /\ tasks # {}
    /\ \A t \in tasks : t.status = "sent"
    /\ wire = {}

(***************************************************************************)
(* Claims about the lifecycle, under Spec.                                 *)
(***************************************************************************)
\* C11: Stop() returns exactly what the provider's shutdown returned and
\* leaves the coordinator stopped, and a coordinator that has been stopped
\* stays stopped whatever is called on it afterwards (a later Start()
\* included).
C11_StoppedIsTerminal ==
    /\ [](last.op = "Stop" =>
            /\ last.err = NoError <=> ~last.shutdownFailed
            /\ lifecycle[last.node] = "Stopped")
    /\ [][\A n \in Nodes : lifecycle[n] = "Stopped" => lifecycle'[n] = "Stopped"]_vars

\* The part of C11 about the result of Stop(), on its own.
C11_StopReturnsShutdownResult ==
    last.op = "Stop" =>
        /\ last.err = (IF last.shutdownFailed THEN ErrShutdown ELSE NoError)
        /\ lifecycle[last.node] = "Stopped"

(***************************************************************************)
(* The claim about a name conflict, under SpecConflict.                    *)
(***************************************************************************)
\* The send tasks launched by node n's broadcasts.
TasksFrom(n) == {t \in tasks : calls[t.call].from = n}

\* C12: a NotifyConflict aborts the node for good: from then on the node
\* hands nothing to its handler, makes no broadcast, none of its send tasks
\* runs, no counter of it changes, and it is never un-aborted.
C12_ConflictIsFatal ==
    /\ [][(last' # last /\ last'.op = "NotifyConflict") => aborted'[last'.node]]_vars
    /\ [][\A n \in Nodes :
            aborted[n] =>
                /\ aborted'[n]
                /\ handled'[n] = handled[n]
                /\ numJoins'[n] = numJoins[n]
                /\ numLeaves'[n] = numLeaves[n]
                /\ numUpdates'[n] = numUpdates[n]
                /\ Len(calls') > Len(calls) => calls'[Len(calls')].from # n
                /\ {t \in tasks' : calls'[t.call].from = n} = TasksFrom(n)
                /\ \A w \in wire' \ wire : calls'[w.call].from # n
                /\ MessageHandler'[n] = MessageHandler[n]
                /\ lifecycle'[n] = lifecycle[n]]_vars

\* A node aborted while it had a handler, a counted join, a handled message
\* and a send still to make, and the other node carried on after that.
C12_Witness ==
    \E n \in Nodes :
        /\ aborted[n]
        /\ MessageHandler[n]
        /\ numJoins[n] > 0
        /\ Len(handled[n]) > 0
        /\ \E t \in TasksFrom(n) : t.status = "pending"
        /\ last.op = "NotifyMsg"
        /\ last.node # n

(***************************************************************************)
(* Claims about the event counters.                                        *)
(***************************************************************************)
\* No callback for event e of node n is between its read and its write.
Quiet(n, e) ==
    \A c \in Contexts :
        ~(/\ callbacks.running[c].pc = "loaded"
          /\ callbacks.running[c].node = n
          /\ callbacks.running[c].event = e)

\* C13: whenever the callbacks for an event that were invoked on a node, from
\* goroutines that may overlap, have all returned, the node's counter of that
\* event equals their number: no increment is lost.
C13_NoLostIncrement ==
    \A n \in Nodes, e \in Events :
        Quiet(n, e) => CounterOf(n, e) = callbacks.returned[n][e]

\* C15: a callback that returns has raised its own counter by exactly one
\* and left the other counters alone, and no counter ever goes down.
C15_OwnCounterPlusOne ==
    /\ [][\A c \in Contexts :
            (callbacks.running[c].pc = "loaded" /\ callbacks'.running[c].pc = "idle") =>
                LET r == callbacks.running[c] IN
                \A n \in Nodes, e \in Events :
                    CounterOf(n, e)' = CounterOf(n, e)
                        + (IF n = r.node /\ e = r.event THEN 1 ELSE 0)]_vars
    /\ [][\A n \in Nodes, e \in Events : CounterOf(n, e)' >= CounterOf(n, e)]_vars

\* The monotonicity part of C15 on its own.
C15_Monotone ==
    [][\A n \in Nodes, e \in Events : CounterOf(n, e)' >= CounterOf(n, e)]_vars

\* C15 for callbacks that do not overlap, under Spec: each callback adds one
\* to its own counter only, and Start, Stop, Check and SetMessageHandler
\* change no counter.  (Every action of Spec records itself in last.)
C15_WhenNotOverlapping ==
    [][/\ numJoins' = IF last'.op = "NotifyJoin"
                        THEN [numJoins EXCEPT ![last'.node] = @ + 1] ELSE numJoins
       /\ numLeaves' = IF last'.op = "NotifyLeave"
                        THEN [numLeaves EXCEPT ![last'.node] = @ + 1] ELSE numLeaves
       /\ numUpdates' = IF last'.op = "NotifyUpdate"
                        THEN [numUpdates EXCEPT ![last'.node] = @ + 1] ELSE numUpdates]_vars

(***************************************************************************)
(* The claim about a failing MessageHandler, under SpecDispatch.           *)
(***************************************************************************)
\* C14, the parts about containment: a message whose HandleMessage returned
\* an error was handed to the handler exactly once, nothing was broadcast
\* or sent because of it, and a well-formed application message that
\* arrives right after it is handed to the handler.
C14_HandlerErrorContained ==
    /\ []((last.op = "NotifyMsg" /\ last.handlerFailed) => last.invoked = 1)
    /\ [][(last'.op = "NotifyMsg" /\ last'.handlerFailed) =>
            /\ UNCHANGED <<Config, MessageHandler, lifecycle, counters, fanout>>
            /\ Len(handled'[last'.node]) = Len(handled[last'.node]) + 1
            /\ \A k \in Nodes \ {last'.node} : handled'[k] = handled[k]]_vars
    /\ [][(/\ last.op = "NotifyMsg"
           /\ last.handlerFailed
           /\ last'.op = "NotifyMsg"
           /\ last'.handler
           /\ WellFormedApp(last'.msg)) =>
            /\ last'.invoked = 1
            /\ Len(handled'[last'.node]) = Len(handled[last'.node]) + 1]_vars

\* C14: when HandleMessage returns an error, NotifyMsg writes that failure
\* to its log, and the failure is contained as C14_HandlerErrorContained
\* says.
C14_HandlerErrorLogged ==
    /\ []((last.op = "NotifyMsg" /\ last.handlerFailed) => Len(last.logged) >= 1)
    /\ C14_HandlerErrorContained

(***************************************************************************)
(* The claim about the envelope of a broadcast, under SpecEncode.          *)
(***************************************************************************)
\* C16: the envelope of every BroadcastString / BroadcastMessage names the
\* broadcasting node's Config.ID as sender and has the kind stringMessage
\* resp. gubleMessage and the payload given; when encoding worked, every
\* send task of the call (and everything of it on the wire) carries the one
\* encoding of that envelope; when encoding failed, the call returned the
\* error and launched no send.
C16_EnvelopeAndBytes ==
    /\ [](\A c \in CallIds :
            LET k == calls[c] IN
            /\ k.cmsg.NodeID = Config[k.from].ID
            /\ k.op = "BroadcastString" =>
                    (k.cmsg.Type = stringMessage /\ k.cmsg.Body = k.input)
            /\ k.op = "BroadcastMessage" =>
                    (k.cmsg.Type = gubleMessage /\ k.cmsg.Body = Bytes(k.input))
            /\ k.err = NoError =>
                    /\ k.bytes = encode(k.cmsg)
                    /\ \A t \in TasksOf(c) :
                        /\ t.bytes = k.bytes
                        /\ decode(t.bytes) = [ok |-> TRUE, cmsg |-> k.cmsg]
                    /\ \A w \in wire : w.call = c => w.bytes = k.bytes
            /\ k.err # NoError =>
                    /\ TasksOf(c) = {}
                    /\ \A w \in wire : w.call # c)
    /\ [][Len(calls') > Len(calls) =>
            /\ last'.err = calls'[Len(calls')].err
            /\ last'.err # NoError => (tasks' = tasks /\ wire' = wire)]_vars

\* A BroadcastMessage to two peers whose sends were both made.
C16_Witness ==
    \E c \in CallIds :
        /\ calls[c].op = "BroadcastMessage"
        /\ calls[c].input # EmptyMessage
        /\ Cardinality(TasksOf(c)) = 2
        /\ \A t \in TasksOf(c) : t.status = "sent"

\* A broadcast whose encoding failed although the node had peers.
C16_EncodeFailed ==
    \E c \in CallIds :
        /\ calls[c].err = ErrEncode
        /\ last.err = ErrEncode
        /\ calls[c].members \ {SelfName(c)} # {}

(***************************************************************************)
(* The claim about Stop and the sends under way, under SpecStop.           *)
(***************************************************************************)
\* The send task of broadcast call c to member m has been launched.
Launched(c, m) == \E t \in tasks : t.call = c /\ t.to = m

\* The send task of broadcast call c to member m has been made: it was
\* attempted once and either delivered or failed.
Terminated(c, m) ==
    \E t \in tasks :
        /\ t.call = c
        /\ t.to = m
        /\ t.status \in {"sent", "failed"}
        /\ t.attempts = 1

\* C17: a Stop() leaves every send task as it is, the tasks not yet made
\* stay free to run after it, and every send task that was launched is
\* eventually made, delivered or failed, whether or not a Stop() comes in
\* between.
C17_StopKeepsDeliveries ==
    /\ [][(last' # last /\ last'.op = "Stop") => tasks' = tasks]_vars
    /\ [](\A t \in tasks : t.status = "pending" => ENABLED sendToNode(t, TRUE))
    /\ \A c \in 1..MaxCalls : \A m \in MemberNames : Launched(c, m) ~> Terminated(c, m)

\* The node was stopped while one of its sends was still to be made, and
\* another of its sends is made.
C17_Witness ==
    /\ last.op = "Stop"
    /\ lifecycle[last.node] = "Stopped"
    /\ \E t \in TasksFrom(last.node) : t.status = "pending"
    /\ \E t \in TasksFrom(last.node) : t.status = "sent"

(***************************************************************************)
(* The claim about a failed Start, under Spec.                             *)
(***************************************************************************)
\* C18: a Start() that returns an error changes nothing of the coordinator
\* (handler, lifecycle state, counters, membership, sends, handled messages)
\* and has called the provider's join at most once; Start() can be called
\* again, and a Start() that comes right after the failed one on the same
\* node, finds a handler and whose join contacts a peer without error
\* succeeds.
C18_FailedStartRetryable ==
    /\ [][(last'.op = "Start" /\ last'.err # NoError) =>
            UNCHANGED <<Config, MessageHandler, lifecycle, counters, fanout, handled>>]_vars
    /\ [](last.op = "Start" =>
            /\ last.joins <= 1
            /\ last.err # NoError => ENABLED Start(last.node, 1, FALSE))
    /\ [][(/\ last.op = "Start"
           /\ last.err # NoError
           /\ last'.op = "Start"
           /\ last'.node = last.node
           /\ last'.handler
           /\ ~last'.joinFailed
           /\ last'.num >= 1) =>
            /\ last'.err = NoError
            /\ lifecycle'[last'.node] = "Started"]_vars

\* A Start() whose join failed, on a node that has a handler and is still
\* in the Created state.
C18_Witness ==
    /\ last.op = "Start"
    /\ last.err = ErrJoin
    /\ last.joins = 1
    /\ MessageHandler[last.node]
    /\ lifecycle[last.node] = "Created"

(***************************************************************************)
(* The claim about inbound messages and Start, under SpecLive.             *)
(***************************************************************************)
\* C19: NotifyMsg can be called in every lifecycle state; a message that
\* arrives while no handler is registered invokes nothing and changes
\* nothing, whatever its kind, and the node is not aborted by it; a message
\* that arrives while a handler is registered is handed to it exactly when it
\* is a well-formed application message, whether the node is started or not.
C19_LiveFromConstruction ==
    /\ [](\A n \in Nodes :
            TotalHandled < MaxHandled => ENABLED Receive(n, AppSample))
    /\ [](last.op = "NotifyMsg" =>
            /\ ~last.handler => last.invoked = 0
            /\ last.handler => (last.invoked = 1 <=> WellFormedApp(last.msg))
            /\ last.invoked <= 1
            /\ ~aborted[last.node])
    /\ [][(last'.op = "NotifyMsg" /\ ~last'.handler) =>
            UNCHANGED <<Config, MessageHandler, lifecycle, counters, fanout, handled,
                        aborted>>]_vars
    /\ [][(last'.op = "NotifyMsg" /\ last'.handler /\ WellFormedApp(last'.msg)) =>
            Len(handled'[last'.node]) = Len(handled[last'.node]) + 1]_vars

\* A well-formed application message arrived at a node that has no handler
\* and was never started, and was dropped.
C19_Witness ==
    /\ last.op = "NotifyMsg"
    /\ ~last.handler
    /\ WellFormedApp(last.msg)
    /\ last.invoked = 0
    /\ lifecycle[last.node] = "Created"
    /\ handled[last.node] = <<>>

\* A well-formed application message was handed to the handler of a node
\* that is not started.
C19_DispatchedBeforeStart ==
    /\ last.op = "NotifyMsg"
    /\ last.handler
    /\ last.invoked = 1
    /\ lifecycle[last.node] = "Created"

(***************************************************************************)
(* The claim about the synchronisation hook, under SpecApns.               *)
(***************************************************************************)
\* C20: the hook called when a subscription is added or deleted returns no
\* error, and an add or delete on one node leaves the subscriptions of every
\* other node, and everything of the cluster layer (broadcast calls, send
\* tasks, the wire, handled messages, counters), unchanged.  (Every action
\* of SpecApns records itself in last.)
C20_NoSubscriptionSync ==
    /\ [](last.op \in {"addSubscription", "deleteSubscription"} =>
            last.syncErr = NoError)
    /\ [][last'.op \in {"addSubscription", "deleteSubscription"} =>
            /\ \A k \in Nodes \ {last'.node} : subs'[k] = subs[k]
            /\ UNCHANGED <<Config, MessageHandler, lifecycle, counters, fanout, handled,
                           aborted>>]_vars

\* Node 1 has added subscriptions and deleted one, each time calling the
\* hook, and node 2 holds none.
C20_Witness ==
    /\ last.op = "deleteSubscription"
    /\ last.node = 1
    /\ last.synced
    /\ subs[1] # {}
    /\ subs[2] = {}
    /\ calls = <<>>

(***************************************************************************)
(* Claims about the connector's handlers, under SpecApns.                  *)
(***************************************************************************)
\* C21: a delete of a key the connector does not hold answers "subscription
\* not found" (404), changes no subscription and does not call the hook; a
\* delete of a key it holds calls the hook while the subscription is still
\* held, then removes exactly that subscription and answers "unsubscribed"
\* with the topic; a request whose method is not POST, GET or DELETE is
\* rejected (405) and changes no subscription.
C21_DeleteAndMethods ==
    /\ [](last.op = "deleteSubscription" =>
            /\ ~last.found =>
                /\ last.response = [kind |-> "error", value |-> "subscription not found",
                                    status |-> 404]
                /\ ~last.synced
            /\ last.found =>
                /\ last.synced
                /\ last.heldAtSync
                /\ last.syncErr = NoError
                /\ last.response = [kind |-> "unsubscribed", value |-> last.topic,
                                    status |-> 200]
                /\ last.key \notin subs[last.node])
    /\ [][last'.op = "deleteSubscription" =>
            /\ last'.found <=> last'.key \in subs[last'.node]
            /\ subs' = IF last'.key \in subs[last'.node]
                        THEN [subs EXCEPT ![last'.node] = @ \ {last'.key}]
                        ELSE subs]_vars
    /\ [][\A n \in Nodes, method \in Methods \ {"POST", "GET", "DELETE"}, path \in Paths :
            ServeHTTP(n, method, path) =>
                /\ subs' = subs
                /\ last'.op = "ServeHTTP"
                /\ last'.response = [kind |-> "error", value |-> "method not allowed",
                                     status |-> 405]]_vars

\* A delete of a subscription that the connector does not hold, while it
\* holds another one.
C21_Witness ==
    /\ last.op = "deleteSubscription"
    /\ ~last.found
    /\ last.response.status = 404
    /\ subs[last.node] # {}

\* A delete of a subscription that the connector held.
C21_Deleted ==
    /\ last.op = "deleteSubscription"
    /\ last.found
    /\ last.response.kind = "unsubscribed"

\* A request with a method that is not supported, at a connector that holds
\* a subscription.
C21_MethodRejected ==
    /\ last.op = "ServeHTTP"
    /\ last.method = "PUT"
    /\ last.response.status = 405
    /\ subs[last.node] # {}

\* C22, the parts about the hook and the two named outcomes: the hook is
\* called exactly when initSubscription returned no error; a subscription
\* that was created is held and answered with "subscribed" and its topic;
\* one that exists already is answered with an error.
C22_HookOnlyWhenStored ==
    last.op = "addSubscription" =>
        /\ last.synced <=> last.err = NoError
        /\ last.err = NoError =>
            /\ last.key \in subs[last.node]
            /\ last.response = [kind |-> "subscribed", value |-> last.topic,
                                status |-> 200]
        /\ last.err = errSubscriptionExists => last.response.kind = "error"

\* C22: an add is answered with "subscribed" exactly when the subscription
\* was created and stored; when initSubscription returned an error, that the
\* subscription exists or any other, the answer is an error; and the hook is
\* called only for a subscription that was created.
C22_SubscribedOnlyWhenStored ==
    /\ C22_HookOnlyWhenStored
    /\ last.op = "addSubscription" =>
        /\ last.response.kind = "subscribed" <=> last.err = NoError
        /\ last.response.kind = "subscribed" => last.key \in subs[last.node]
        /\ last.err # NoError => last.response.kind = "error"

====
